---- MODULE Spec2Model ----
(***************************************************************************)
(* SubwaySentinal: the transfer advisory logic of subway_alert.py and of   *)
(* the dashboard web_app.py.  Every operation is a single-shot function of *)
(* the feed snapshots it is given and of the wall clock, which it reads    *)
(* once per parse_arrivals call.  Times are whole seconds.                 *)
(***************************************************************************)
EXTENDS Integers, Sequences, FiniteSets, TLC

VARIABLES now, pc, op, args, ret

vars == <<now, pc, op, args, ret>>

(***************************************************************************)
(* Bounds of the model.                                                    *)
(***************************************************************************)
MaxStops == 2      \* records in a snapshot given to parse_arrivals alone
MaxCarroll == 2    \* records in an origin (Carroll / Smith-9th) snapshot
MaxHoyt == 1       \* records in the Hoyt snapshot
MaxLafayette == 3  \* records in the Lafayette snapshot
MaxDrift == 1      \* seconds the clock may advance during one operation

(***************************************************************************)
(* Python values.                                                          *)
(***************************************************************************)
\* Optional number: None, or a number v.
None == [isNone |-> TRUE, v |-> 0]
Some(x) == [isNone |-> FALSE, v |-> x]
\* Truthiness of an optional number (None and 0 are falsy).
Truthy(x) == (~x.isNone) /\ x.v # 0

\* Strings are sequences of one-character strings.
Digits == {"0", "1", "2", "3", "4", "5", "6", "7", "8", "9"}
DigitVal(c) ==
    CASE c = "0" -> 0 [] c = "1" -> 1 [] c = "2" -> 2 [] c = "3" -> 3
      [] c = "4" -> 4 [] c = "5" -> 5 [] c = "6" -> 6 [] c = "7" -> 7
      [] c = "8" -> 8 [] c = "9" -> 9

RECURSIVE DecVal(_)
DecVal(s) ==
    IF s = <<>> THEN 0
    ELSE 10 * DecVal(SubSeq(s, 1, Len(s) - 1)) + DigitVal(s[Len(s)])

\* int(str): the decimal value of a digit string, ValueError otherwise.
IntParses(s) == Len(s) > 0 /\ \A i \in 1..Len(s) : s[i] \in Digits
int(s) == DecVal(s)

\* "c in text" for a one-character c.
Contains(c, text) == \E i \in 1..Len(text) : text[i] = c

(***************************************************************************)
(* Feed records.  An arrival / departure entry of a stopTime is            *)
(*   Missing : the key is absent or its value is an empty mapping,         *)
(*   NoTime  : a non-empty mapping without a "time" (or with an empty one),*)
(*   a string: the mapping's "time".                                       *)
(***************************************************************************)
Missing == [kind |-> "missing", time |-> <<>>]
NoTime == [kind |-> "notime", time |-> <<>>]
At(s) == [kind |-> "time", time |-> s]

StopTime(r, a, d) == [route |-> r, arrival |-> a, departure |-> d]

\* A snapshot is None (no payload) or a mapping with its stopTimes list.
NoData == [isNone |-> TRUE, stopTimes |-> <<>>]
Data(sts) == [isNone |-> FALSE, stopTimes |-> sts]

\* The routes argument: None, or a list of route ids (used as a set).
NoRoutes == [isNone |-> TRUE, ids |-> {}]
Only(S) == [isNone |-> FALSE, ids |-> S]

\* Results that may raise.
Ok(x) == [exc |-> "none", val |-> x]
Raise(e) == [exc |-> e, val |-> <<>>]

(***************************************************************************)
(* sorted(arrivals, key=lambda x: x[1]): stable, ascending by seconds.     *)
(***************************************************************************)
RECURSIVE InsertSorted(_, _)
InsertSorted(e, s) ==
    IF s = <<>> THEN <<e>>
    ELSE IF s[Len(s)][2] <= e[2] THEN Append(s, e)
    ELSE Append(InsertSorted(e, SubSeq(s, 1, Len(s) - 1)), s[Len(s)])

RECURSIVE sorted(_)
sorted(s) ==
    IF s = <<>> THEN <<>>
    ELSE InsertSorted(s[Len(s)], sorted(SubSeq(s, 1, Len(s) - 1)))

(***************************************************************************)
(* parse_arrivals(data, routes), reading the clock as t.                   *)
(***************************************************************************)
\* st.get("arrival", {}) or st.get("departure", {})
arrival_info(st) == IF st.arrival.kind # "missing" THEN st.arrival ELSE st.departure

\* The record passes the route filter (the continue is not taken).
RouteKept_Unfiltered(st, routes) == TRUE

RouteKept(st, routes) == ~(~routes.isNone /\ routes.ids # {} /\ st.route \notin routes.ids)

\* The record reaches int(arrival_time_str).
HasTimeStr(st) == arrival_info(st).kind = "time" /\ arrival_info(st).time # <<>>

RECURSIVE ParseLoop(_, _, _)
ParseLoop(sts, routes, t) ==
    IF sts = <<>> THEN Ok(<<>>)
    ELSE LET st == sts[Len(sts)]
             before == ParseLoop(SubSeq(sts, 1, Len(sts) - 1), routes, t)
         IN  IF before.exc # "none" THEN before
             ELSE IF ~RouteKept(st, routes) THEN before
             ELSE IF ~HasTimeStr(st) THEN before
             ELSE IF ~IntParses(arrival_info(st).time) THEN Raise("ValueError")
             ELSE LET seconds_until == int(arrival_info(st).time) - t
                  IN  IF seconds_until > 0
                      THEN Ok(Append(before.val, <<st.route, seconds_until>>))
                      ELSE before

parse_arrivals(data, routes, t) ==
    IF data.isNone THEN Raise("AttributeError")
    ELSE LET arrivals == ParseLoop(data.stopTimes, routes, t)
         IN  IF arrivals.exc # "none" THEN arrivals ELSE Ok(sorted(arrivals.val))

(***************************************************************************)
(* get_next_train(arrivals, routes)                                        *)
(***************************************************************************)
NoTrain == [route |-> "", seconds |-> None]

RECURSIVE get_next_train(_, _)
get_next_train(arrivals, routes) ==
    IF arrivals = <<>> THEN NoTrain
    ELSE IF routes.isNone \/ arrivals[1][1] \in routes.ids
         THEN [route |-> arrivals[1][1], seconds |-> Some(arrivals[1][2])]
         ELSE get_next_train(Tail(arrivals), routes)

(***************************************************************************)
(* Optional text (None or a string).                                       *)
(***************************************************************************)
NoText == [isNone |-> TRUE, text |-> <<>>]
Text(s) == [isNone |-> FALSE, text |-> s]
TextTruthy(x) == (~x.isNone) /\ x.text # <<>>

CARROLL_TO_LAFAYETTE_TRAVEL_TIME == 8 * 60
SMITH_9TH_TO_LAFAYETTE_TRAVEL_TIME == 6 * 60

(***************************************************************************)
(* check_g_switch(carroll_data, hoyt_data); t1 and t2 are the clock values *)
(* read by its first and second parse_arrivals call.                       *)
(***************************************************************************)
NoSwitch == [exc |-> "none", g_switch |-> NoText, g_arrival |-> None, a_arrival |-> None]
SwitchRaise(e) == [exc |-> e, g_switch |-> NoText, g_arrival |-> None, a_arrival |-> None]
G_TO_A == <<"G", " ", "t", "o", " ", "A">>

AWithinWindow_Strict(a_time, g_time) == a_time < (g_time + 3 * 60) + 5 * 60

AWithinWindow(a_time, g_time) == a_time <= (g_time + 3 * 60) + 5 * 60

check_g_switch(carroll_data, hoyt_data, t1, t2) ==
    LET carroll_arrivals == parse_arrivals(carroll_data, NoRoutes, t1)
    IN  IF carroll_arrivals.exc # "none" THEN SwitchRaise(carroll_arrivals.exc)
        ELSE
        LET g == get_next_train(carroll_arrivals.val, Only({"G"}))
            f == get_next_train(carroll_arrivals.val, Only({"F"}))
        IN  IF g.seconds.isNone \/ f.seconds.isNone THEN NoSwitch
            ELSE IF (f.seconds.v - g.seconds.v) < 6 * 60 THEN NoSwitch
            ELSE
            LET hoyt_arrivals == parse_arrivals(hoyt_data, NoRoutes, t2)
            IN  IF hoyt_arrivals.exc # "none" THEN SwitchRaise(hoyt_arrivals.exc)
                ELSE
                LET a == get_next_train(hoyt_arrivals.val, Only({"A"}))
                IN  IF a.seconds.isNone THEN NoSwitch
                    ELSE IF AWithinWindow(a.seconds.v, g.seconds.v)
                         THEN [exc |-> "none", g_switch |-> Text(G_TO_A),
                               g_arrival |-> g.seconds, a_arrival |-> a.seconds]
                         ELSE NoSwitch

(***************************************************************************)
(* check_bd_express(station_data, lafayette_data, travel_time); t1 and t2  *)
(* are the clock values read by its two parse_arrivals calls.              *)
(***************************************************************************)
TRANSFER_TO == <<"T", "r", "a", "n", "s", "f", "e", "r", " ", "t", "o", " ">>
AT_LAFAYETTE == <<" ", "a", "t", " ", "L", "a", "f", "a", "y", "e", "t", "t", "e">>
FOR_EXPRESS == <<" ", "f", "o", "r", " ", "E", "x", "p", "r", "e", "s", "s">>

\* f"Transfer to {route} at Lafayette for Express"
ExpressAdvice(route) == TRANSFER_TO \o <<route>> \o AT_LAFAYETTE \o FOR_EXPRESS

\* 0 <= (bd_time - f_at_lafayette) <= 3 * 60
InExpressWindow_NoLowerBound(bd_time, f_at_lafayette) ==
    (bd_time - f_at_lafayette) <= 3 * 60

InExpressWindow(bd_time, f_at_lafayette) ==
    0 <= (bd_time - f_at_lafayette) /\ (bd_time - f_at_lafayette) <= 3 * 60

RECURSIVE ExpressScan(_, _)
ExpressScan(lafayette_arrivals, f_at_lafayette) ==
    IF lafayette_arrivals = <<>> THEN NoText
    ELSE IF InExpressWindow(lafayette_arrivals[1][2], f_at_lafayette)
         THEN Text(ExpressAdvice(lafayette_arrivals[1][1]))
         ELSE ExpressScan(Tail(lafayette_arrivals), f_at_lafayette)

AdviceRaise(e) == [exc |-> e, val |-> NoText]

check_bd_express(station_data, lafayette_data, travel_time, t1, t2) ==
    LET station_arrivals == parse_arrivals(station_data, NoRoutes, t1)
    IN  IF station_arrivals.exc # "none" THEN AdviceRaise(station_arrivals.exc)
        ELSE
        LET f == get_next_train(station_arrivals.val, Only({"F"}))
        IN  IF f.seconds.isNone THEN Ok(NoText)
            ELSE
            LET f_at_lafayette == f.seconds.v + travel_time
                lafayette_arrivals == parse_arrivals(lafayette_data, Only({"B", "D"}), t2)
            IN  IF lafayette_arrivals.exc # "none" THEN AdviceRaise(lafayette_arrivals.exc)
                ELSE Ok(ExpressScan(lafayette_arrivals.val, f_at_lafayette))

(***************************************************************************)
(* get_station_report(station_name, station_stop, hoyt_data,               *)
(* lafayette_data, travel_time).  station_fetch is the outcome of          *)
(* get_arrivals(station_stop); t[1..6] are the clock values read by the    *)
(* six parse_arrivals calls the report can make, in call order.  The       *)
(* report is kept as the values its lines are printed from (the            *)
(* minutes-with-one-decimal rendering of a time is not part of the model). *)
(***************************************************************************)
NoLines == [recommended_train |-> "", f_line |-> None, g_line |-> None,
            g_switch_line |-> NoText, lafayette_line |-> None, listing |-> <<>>]
ReportRaise(e) == [exc |-> e, lines |-> NoLines, g_switch |-> NoText, bd_advice |-> NoText]

\* The recommendation after both rules have been consulted.
Recommend(g_switch, bd_advice) ==
    LET after_g == IF TextTruthy(g_switch) THEN "G" ELSE "F"
    IN  IF TextTruthy(bd_advice)
        THEN IF Contains("B", bd_advice.text) THEN "F -> B"
             ELSE IF Contains("D", bd_advice.text) THEN "F -> D"
             ELSE after_g
        ELSE after_g

\* lafayette_arrivals[:2]
FirstTwo(s) == SubSeq(s, 1, IF Len(s) < 2 THEN Len(s) ELSE 2)

RECURSIVE ListingLines(_, _)
ListingLines(arrivals, f_at_lafayette) ==
    IF arrivals = <<>> THEN <<>>
    ELSE LET wait == arrivals[1][2] - f_at_lafayette
             rest == ListingLines(Tail(arrivals), f_at_lafayette)
         IN  IF wait >= 0
             THEN <<[route |-> arrivals[1][1], bd_time |-> arrivals[1][2],
                     wait |-> wait, viable |-> (wait <= 3 * 60)]>> \o rest
             ELSE rest

get_station_report(station_fetch, hoyt_data, lafayette_data, travel_time, t) ==
    IF station_fetch.exc # "none" THEN ReportRaise(station_fetch.exc)
    ELSE
    LET station_data == station_fetch.val
        station_arrivals == parse_arrivals(station_data, NoRoutes, t[1])
    IN  IF station_arrivals.exc # "none" THEN ReportRaise(station_arrivals.exc)
        ELSE
        LET f == get_next_train(station_arrivals.val, Only({"F"}))
            g == get_next_train(station_arrivals.val, Only({"G"}))
            gs == check_g_switch(station_data, hoyt_data, t[2], t[3])
        IN  IF gs.exc # "none" THEN ReportRaise(gs.exc)
            ELSE
            LET bd == check_bd_express(station_data, lafayette_data, travel_time, t[4], t[5])
            IN  IF bd.exc # "none" THEN ReportRaise(bd.exc)
                ELSE
                LET recommended_train == Recommend(gs.g_switch, bd.val)
                    f_at_lafayette == f.seconds.v + travel_time
                    lafayette_arrivals ==
                        IF Truthy(f.seconds)
                        THEN parse_arrivals(lafayette_data, Only({"B", "D"}), t[6])
                        ELSE Ok(<<>>)
                IN  IF lafayette_arrivals.exc # "none" THEN ReportRaise(lafayette_arrivals.exc)
                    ELSE
                    [exc |-> "none",
                     lines |->
                        [recommended_train |-> recommended_train,
                         f_line |-> IF Truthy(f.seconds) THEN f.seconds ELSE None,
                         g_line |-> IF Truthy(g.seconds) THEN g.seconds ELSE None,
                         g_switch_line |-> IF TextTruthy(gs.g_switch) THEN gs.g_switch ELSE NoText,
                         lafayette_line |-> IF Truthy(f.seconds) THEN Some(f_at_lafayette) ELSE None,
                         listing |-> ListingLines(FirstTwo(lafayette_arrivals.val), f_at_lafayette)],
                     g_switch |-> gs.g_switch,
                     bd_advice |-> bd.val]

(***************************************************************************)
(* main(dry_run).  The four get_arrivals outcomes and the list returned by *)
(* get_service_alerts are inputs; t[1..12] are the clock values read by    *)
(* the parse_arrivals calls of the two station reports.                    *)
(***************************************************************************)
MainError(e, dry_run) ==
    [outcome |-> "error", error |-> e, emailed |-> ~dry_run,
     carroll |-> NoLines, smith |-> NoLines, alerts |-> <<>>]

main(dry_run, hoyt_fetch, lafayette_fetch, carroll_fetch, smith_fetch, service_alerts, t) ==
    IF hoyt_fetch.exc # "none" THEN MainError(hoyt_fetch.exc, dry_run)
    ELSE IF lafayette_fetch.exc # "none" THEN MainError(lafayette_fetch.exc, dry_run)
    ELSE
    LET hoyt_data == hoyt_fetch.val
        lafayette_data == lafayette_fetch.val
        carroll == get_station_report(carroll_fetch, hoyt_data, lafayette_data,
                                      CARROLL_TO_LAFAYETTE_TRAVEL_TIME, SubSeq(t, 1, 6))
    IN  IF carroll.exc # "none" THEN MainError(carroll.exc, dry_run)
        ELSE
        LET smith == get_station_report(smith_fetch, hoyt_data, lafayette_data,
                                        SMITH_9TH_TO_LAFAYETTE_TRAVEL_TIME, SubSeq(t, 7, 12))
        IN  IF smith.exc # "none" THEN MainError(smith.exc, dry_run)
            ELSE [outcome |-> "report", error |-> "none", emailed |-> ~dry_run,
                  carroll |-> carroll.lines, smith |-> smith.lines,
                  alerts |-> service_alerts]

(***************************************************************************)
(* get_subway_data() of the dashboard.  The three get_arrivals outcomes    *)
(* are inputs; t[1..3] are the clock values read by its parse_arrivals     *)
(* calls.  (last_updated, a rendering of the clock, is not modelled.)      *)
(***************************************************************************)
WebError(e) ==
    [error |-> e, f_time |-> None, g_time |-> None, g_switch |-> NoText,
     bd_express |-> NoText, catchable_bd |-> <<>>, f_at_lafayette |-> None,
     recommended |-> ""]

\* f"Transfer to {route} at Lafayette"
WebAdvice(route) == TRANSFER_TO \o <<route>> \o AT_LAFAYETTE

\* The loop over lafayette_arrivals: the pair <<catchable_bd, bd_express>>.
RECURSIVE CatchableScan(_, _, _, _)
CatchableScan(arrivals, f_at_lafayette, catchable_bd, bd_express) ==
    IF arrivals = <<>> THEN <<catchable_bd, bd_express>>
    ELSE LET route == arrivals[1][1]
             bd_time == arrivals[1][2]
             wait == bd_time - f_at_lafayette
         IN  IF wait >= 0
             THEN LET viable == (wait <= 2 * 60)
                      catchable == Append(catchable_bd,
                                          [route |-> route, bd_time |-> bd_time,
                                           wait |-> wait, viable |-> viable])
                      express == IF viable /\ ~TextTruthy(bd_express)
                                 THEN Text(WebAdvice(route)) ELSE bd_express
                  IN  IF Len(catchable) >= 2 THEN <<catchable, express>>
                      ELSE CatchableScan(Tail(arrivals), f_at_lafayette, catchable, express)
             ELSE CatchableScan(Tail(arrivals), f_at_lafayette, catchable_bd, bd_express)

get_subway_data(carroll_fetch, hoyt_fetch, lafayette_fetch, t) ==
    IF carroll_fetch.exc # "none" THEN WebError(carroll_fetch.exc)
    ELSE IF hoyt_fetch.exc # "none" THEN WebError(hoyt_fetch.exc)
    ELSE IF lafayette_fetch.exc # "none" THEN WebError(lafayette_fetch.exc)
    ELSE
    LET carroll_arrivals == parse_arrivals(carroll_fetch.val, NoRoutes, t[1])
    IN  IF carroll_arrivals.exc # "none" THEN WebError(carroll_arrivals.exc)
        ELSE
        LET f == get_next_train(carroll_arrivals.val, Only({"F"}))
            g == get_next_train(carroll_arrivals.val, Only({"G"}))
            lead == Truthy(g.seconds) /\ Truthy(f.seconds)
                    /\ (f.seconds.v - g.seconds.v) >= 6 * 60
            hoyt_arrivals == IF lead THEN parse_arrivals(hoyt_fetch.val, NoRoutes, t[2])
                             ELSE Ok(<<>>)
        IN  IF hoyt_arrivals.exc # "none" THEN WebError(hoyt_arrivals.exc)
            ELSE
            LET a == get_next_train(hoyt_arrivals.val, Only({"A"}))
                g_switch == IF lead /\ Truthy(a.seconds)
                               /\ AWithinWindow(a.seconds.v, g.seconds.v)
                            THEN Text(G_TO_A) ELSE NoText
                f_at_lafayette == f.seconds.v + CARROLL_TO_LAFAYETTE_TRAVEL_TIME
                lafayette_arrivals ==
                    IF Truthy(f.seconds)
                    THEN parse_arrivals(lafayette_fetch.val, Only({"B", "D"}), t[3])
                    ELSE Ok(<<>>)
            IN  IF lafayette_arrivals.exc # "none" THEN WebError(lafayette_arrivals.exc)
                ELSE
                LET scan == CatchableScan(lafayette_arrivals.val, f_at_lafayette, <<>>, NoText)
                IN  [error |-> "none",
                     f_time |-> IF Truthy(f.seconds) THEN f.seconds ELSE None,
                     g_time |-> IF Truthy(g.seconds) THEN g.seconds ELSE None,
                     g_switch |-> g_switch,
                     bd_express |-> scan[2],
                     catchable_bd |-> scan[1],
                     f_at_lafayette |-> IF Truthy(f.seconds) THEN Some(f_at_lafayette) ELSE None,
                     recommended |-> IF TextTruthy(g_switch) THEN "G" ELSE "F"]

(***************************************************************************)
(* Inputs.  The clock starts at 1000; feed timestamps are epoch seconds    *)
(* written as decimal strings.                                             *)
(***************************************************************************)
T1000 == <<"1", "0", "0", "0">>
T1001 == <<"1", "0", "0", "1">>
T1400 == <<"1", "4", "0", "0">>
T1050 == <<"1", "0", "5", "0">>
T1100 == <<"1", "1", "0", "0">>
T1101 == <<"1", "1", "0", "1">>
T1460 == <<"1", "4", "6", "0">>
T1580 == <<"1", "5", "8", "0">>
T1581 == <<"1", "5", "8", "1">>
T1939 == <<"1", "9", "3", "9">>
T1940 == <<"1", "9", "4", "0">>
T2001 == <<"2", "0", "0", "1">>
\* An ISO-8601 timestamp.
ISO == <<"2", "0", "2", "6", "-", "0", "1", "-", "0", "1", "T",
         "0", "0", ":", "0", "0", ":", "0", "0", "Z">>

\* Sequences over S of length at most n.
RECURSIVE SeqsUpTo(_, _)
SeqsUpTo(S, n) ==
    IF n = 0 THEN {<<>>}
    ELSE LET shorter == SeqsUpTo(S, n - 1)
         IN  shorter \cup {Append(s, x) : s \in {q \in shorter : Len(q) = n - 1}, x \in S}

Arriving(r, s) == StopTime(r, At(s), Missing)

\* Records seen by parse_arrivals on its own: every shape of entry.
ParseRecords ==
    {StopTime(r, a, d) :
        r \in {"F", "G"},
        a \in {Missing, NoTime, At(ISO), At(T1000), At(T1001), At(T1100)},
        d \in {Missing, At(T1460)}}
ParseInputs == {NoData} \cup {Data(s) : s \in SeqsUpTo(ParseRecords, MaxStops)}
RouteFilters == {NoRoutes, Only({}), Only({"F"})}

CarrollRecords ==
    {Arriving("G", T1100), Arriving("G", T1101), Arriving("F", T1460), Arriving("F", T1400)}
HoytRecords == {Arriving("A", T1580), Arriving("A", T1581), Arriving("A", T1050)}
LafayetteRecords == {Arriving("B", T1939), Arriving("D", T1940), Arriving("B", T2001)}

CarrollInputs == {Data(s) : s \in SeqsUpTo(CarrollRecords, MaxCarroll)}
HoytInputs == {NoData} \cup {Data(s) : s \in SeqsUpTo(HoytRecords, MaxHoyt)}
LafayetteInputs == {NoData} \cup {Data(s) : s \in SeqsUpTo(LafayetteRecords, MaxLafayette)}
TravelTimes ==
    {CARROLL_TO_LAFAYETTE_TRAVEL_TIME, SMITH_9TH_TO_LAFAYETTE_TRAVEL_TIME, 0, -1}

\* get_arrivals(stop_id): the payload, or the request raises.
Fetches(inputs) == {Raise("RequestException")} \cup {Ok(d) : d \in inputs}

\* The clock values of k successive reads, the first no earlier than t0 and
\* the last no later than tmax.
RECURSIVE Reads(_, _, _)
Reads(k, t0, tmax) ==
    IF k = 0 THEN {<<>>}
    ELSE UNION {{<<t>> \o r : r \in Reads(k - 1, t, tmax)} : t \in t0..tmax}

\* Inputs of main(): a few whole feeds.
MainStations ==
    Fetches({Data(<<>>), Data(<<Arriving("F", T1460)>>),
             Data(<<Arriving("G", T1100), Arriving("F", T1460)>>)})
MainHoyt == Fetches({NoData, Data(<<>>), Data(<<Arriving("A", T1580)>>)})
MainLafayette == Fetches({Data(<<>>), Data(<<Arriving("D", T1940)>>)})
ALERT == [route |-> "F", header |-> "Service Alert"]

(***************************************************************************)
(* The state machine: one operation is invoked on an idle program and runs *)
(* to completion.  args and ret keep what it was given and what it gave.   *)
(***************************************************************************)
Init ==
    /\ now = 1000
    /\ pc = "idle"
    /\ op = "none"
    /\ args = <<>>
    /\ ret = <<>>

Done(name, a, r, t) ==
    /\ pc' = "done"
    /\ op' = name
    /\ args' = a
    /\ ret' = r
    /\ now' = t

ParseArrivals ==
    /\ pc = "idle"
    /\ \E data \in ParseInputs, routes \in RouteFilters, t \in Reads(1, now, now + MaxDrift) :
        Done("parse_arrivals", [data |-> data, routes |-> routes, t |-> t],
             parse_arrivals(data, routes, t[1]), t[1])

GetNextTrain ==
    /\ pc = "idle"
    /\ \E data \in ParseInputs, filter \in RouteFilters, routes \in RouteFilters :
        LET arrivals == parse_arrivals(data, filter, now)
        IN  /\ arrivals.exc = "none"
            /\ Done("get_next_train", [arrivals |-> arrivals.val, routes |-> routes],
                    get_next_train(arrivals.val, routes), now)

CheckGSwitch ==
    /\ pc = "idle"
    /\ \E carroll_data \in CarrollInputs, hoyt_data \in HoytInputs,
       t \in Reads(2, now, now + MaxDrift) :
        Done("check_g_switch",
             [carroll_data |-> carroll_data, hoyt_data |-> hoyt_data, t |-> t],
             check_g_switch(carroll_data, hoyt_data, t[1], t[2]), t[2])

CheckBdExpress ==
    /\ pc = "idle"
    /\ \E station_data \in CarrollInputs, lafayette_data \in LafayetteInputs,
       travel_time \in TravelTimes, t \in Reads(2, now, now + MaxDrift) :
        Done("check_bd_express",
             [station_data |-> station_data, lafayette_data |-> lafayette_data,
              travel_time |-> travel_time, t |-> t],
             check_bd_express(station_data, lafayette_data, travel_time, t[1], t[2]), t[2])

GetStationReport ==
    /\ pc = "idle"
    /\ \E station_fetch \in Fetches(CarrollInputs), hoyt_data \in HoytInputs,
       lafayette_data \in LafayetteInputs, travel_time \in TravelTimes,
       t \in Reads(6, now, now + MaxDrift) :
        Done("get_station_report",
             [station_fetch |-> station_fetch, hoyt_data |-> hoyt_data,
              lafayette_data |-> lafayette_data, travel_time |-> travel_time, t |-> t],
             get_station_report(station_fetch, hoyt_data, lafayette_data, travel_time, t),
             t[6])

Main ==
    /\ pc = "idle"
    /\ \E dry_run \in BOOLEAN, hoyt_fetch \in MainHoyt, lafayette_fetch \in MainLafayette,
       carroll_fetch \in MainStations, smith_fetch \in MainStations,
       service_alerts \in {<<>>, <<ALERT>>}, t \in Reads(12, now, now + MaxDrift) :
        Done("main",
             [dry_run |-> dry_run, hoyt_fetch |-> hoyt_fetch,
              lafayette_fetch |-> lafayette_fetch, carroll_fetch |-> carroll_fetch,
              smith_fetch |-> smith_fetch, service_alerts |-> service_alerts, t |-> t],
             main(dry_run, hoyt_fetch, lafayette_fetch, carroll_fetch, smith_fetch,
                  service_alerts, t),
             t[12])

GetSubwayData ==
    /\ pc = "idle"
    /\ \E carroll_fetch \in Fetches(CarrollInputs), hoyt_fetch \in Fetches(HoytInputs),
       lafayette_fetch \in Fetches(LafayetteInputs), t \in Reads(3, now, now + MaxDrift) :
        Done("get_subway_data",
             [carroll_fetch |-> carroll_fetch, hoyt_fetch |-> hoyt_fetch,
              lafayette_fetch |-> lafayette_fetch, t |-> t],
             get_subway_data(carroll_fetch, hoyt_fetch, lafayette_fetch, t), t[3])

Next ==
    \/ ParseArrivals
    \/ GetNextTrain
    \/ CheckGSwitch
    \/ CheckBdExpress
    \/ GetStationReport
    \/ Main
    \/ GetSubwayData

Spec == Init /\ [][Next]_vars

\* The normalizer and the selector alone.
NextParse == ParseArrivals \/ GetNextTrain
SpecParse == Init /\ [][NextParse]_vars

\* The two rules alone.
NextRules == CheckGSwitch \/ CheckBdExpress
SpecRules == Init /\ [][NextRules]_vars

\* The station report alone.
NextReport == GetStationReport
SpecReport == Init /\ [][NextReport]_vars

\* The operations that take a travel time.
NextTravel == CheckBdExpress \/ GetStationReport
SpecTravel == Init /\ [][NextTravel]_vars

\* The two entry points: the mailer and the dashboard.
NextEntry == Main \/ GetSubwayData
SpecEntry == Init /\ [][NextEntry]_vars

(***************************************************************************)
(* Vocabulary of the properties, defined on the feed itself.               *)
(***************************************************************************)
Records(data) == IF data.isNone THEN {} ELSE {data.stopTimes[i] : i \in 1..Len(data.stopTimes)}

\* Seconds-until-arrival, at instant t, of the upcoming trains of route r.
UpcomingTimes(data, r, t) ==
    {int(st.arrival.time) - t :
        st \in {x \in Records(data) : /\ x.route = r
                                      /\ x.arrival.kind = "time"
                                      /\ IntParses(x.arrival.time)
                                      /\ int(x.arrival.time) > t}}

Min(S) == CHOOSE m \in S : \A x \in S : m <= x

\* The route a Rule B advisory names.
AdviceRoute(text) == text[Len(TRANSFER_TO) + 1]

Returned == pc = "done" /\ ret.exc = "none"

(***************************************************************************)
(* C1.  Whenever check_g_switch returns, it returns the advisory "G to A"  *)
(* with the G and A times if and only if the soonest G at the origin is at *)
(* least 360 s earlier than the soonest F there, an A train exists at the  *)
(* transfer station and the soonest A arrives no later than                *)
(* g_time + 180 + 300 (no lower bound); otherwise it returns               *)
(* (None, None, None).                                                     *)
(***************************************************************************)
C1_RuleA ==
    (op = "check_g_switch" /\ Returned) =>
        LET G == UpcomingTimes(args.carroll_data, "G", args.t[1])
            F == UpcomingTimes(args.carroll_data, "F", args.t[1])
            A == UpcomingTimes(args.hoyt_data, "A", args.t[2])
            fires == /\ G # {} /\ F # {}
                     /\ Min(F) - Min(G) >= 360
                     /\ A # {}
                     /\ Min(A) <= Min(G) + 180 + 300
        IN  IF fires
            THEN /\ ret.g_switch = Text(G_TO_A)
                 /\ ret.g_arrival = Some(Min(G))
                 /\ ret.a_arrival = Some(Min(A))
            ELSE ret = NoSwitch

\* Rule A fired on the two boundaries: F exactly 360 s after G, A exactly at
\* g_time + 480.
C1_Witness ==
    /\ op = "check_g_switch" /\ Returned
    /\ ret.g_switch = Text(G_TO_A)
    /\ Min(UpcomingTimes(args.carroll_data, "F", args.t[1])) - ret.g_arrival.v = 360
    /\ ret.a_arrival.v = ret.g_arrival.v + 480

RECURSIVE FeedEvents(_, _, _)
FeedEvents(sts, routes, t) ==
    IF sts = <<>> THEN <<>>
    ELSE LET st == Head(sts)
             rest == FeedEvents(Tail(sts), routes, t)
         IN  IF /\ (routes.isNone \/ routes.ids = {} \/ st.route \in routes.ids)
                /\ HasTimeStr(st)
                /\ IntParses(arrival_info(st).time)
                /\ int(arrival_info(st).time) > t
             THEN <<<<st.route, int(arrival_info(st).time) - t>>>> \o rest
             ELSE rest

\* The events of a sequence that are s seconds away, in order.
EventsAt(events, s) == LET IsAt(e) == e[2] = s IN SelectSeq(events, IsAt)

Ascending(events) ==
    \A i \in 1..Len(events) : \A j \in i..Len(events) : events[i][2] <= events[j][2]

AllUpcoming(events) == \A i \in 1..Len(events) : events[i][2] > 0

FeedOrderOnTies(events, feed) ==
    \A s \in {feed[i][2] : i \in 1..Len(feed)} \cup {events[i][2] : i \in 1..Len(events)} :
        EventsAt(events, s) = EventsAt(feed, s)

\* get_next_train returned the earliest event whose route is requested, or
\* (None, None) when there is none.
EarliestRequested ==
    LET M == {i \in 1..Len(args.arrivals) :
                 args.routes.isNone \/ args.arrivals[i][1] \in args.routes.ids}
    IN  IF M = {} THEN ret = NoTrain
        ELSE ret = [route |-> args.arrivals[Min(M)][1],
                    seconds |-> Some(args.arrivals[Min(M)][2])]

HasTime(entry) == entry.kind = "time" /\ entry.time # <<>>

\* The effective timestamp: the arrival's if present, else the departure's.
EffectiveTime(st) ==
    IF HasTime(st.arrival) THEN st.arrival.time
    ELSE IF HasTime(st.departure) THEN st.departure.time
    ELSE <<>>

Malformed(st) == EffectiveTime(st) = <<>> \/ ~IntParses(EffectiveTime(st))

C5_MalformedDropped ==
    (op = "parse_arrivals" /\ pc = "done" /\ ~args.data.isNone) =>
        LET WellFormed(st) == ~Malformed(st)
            cleaned == Data(SelectSeq(args.data.stopTimes, WellFormed))
        IN  /\ ret.exc = "none"
            /\ ret = parse_arrivals(cleaned, args.routes, args.t[1])
            /\ \A st \in Records(args.data) :
                  (/\ ~HasTime(st.arrival)
                   /\ HasTime(st.departure)
                   /\ IntParses(st.departure.time)
                   /\ int(st.departure.time) > args.t[1]
                   /\ (args.routes.isNone \/ st.route \in args.routes.ids))
                  => \E i \in 1..Len(ret.val) :
                        ret.val[i] = <<st.route, int(st.departure.time) - args.t[1]>>

(***************************************************************************)
(* C3.  In the report, whenever Rule A fired the recommended route is G,   *)
(* also when Rule B fired; when only Rule B fired it is "F -> <route of    *)
(* Rule B's advisory>", and when neither fired it is F.                    *)
(***************************************************************************)
C3_Precedence ==
    (op = "get_station_report" /\ Returned) =>
        ret.lines.recommended_train =
            IF TextTruthy(ret.g_switch) THEN "G"
            ELSE IF TextTruthy(ret.bd_advice)
                 THEN IF AdviceRoute(ret.bd_advice.text) = "B" THEN "F -> B" ELSE "F -> D"
                 ELSE "F"

(***************************************************************************)
(* C7.  Within one report every seconds-until-arrival value is resolved    *)
(* against one instant captured once: the report equals the report of an   *)
(* evaluation in which the clock did not move after the first read.        *)
(***************************************************************************)
C7_OneInstant ==
    (op = "get_station_report" /\ pc = "done") =>
        ret = get_station_report(args.station_fetch, args.hoyt_data, args.lafayette_data,
                                 args.travel_time, [i \in 1..6 |-> args.t[1]])

(***************************************************************************)
(* C9.  The listing of the report holds, in ascending time order, exactly  *)
(* the first two downstream B/D arrivals with a non-negative wait (all of  *)
(* them when fewer), each marked viable exactly when its wait is <= 180 s; *)
(* so when Rule B fired, the train it named is listed as viable.           *)
(***************************************************************************)
RECURSIVE Catchable(_, _)
Catchable(arrivals, f_at_lafayette) ==
    IF arrivals = <<>> THEN <<>>
    ELSE LET wait == arrivals[1][2] - f_at_lafayette
             rest == Catchable(Tail(arrivals), f_at_lafayette)
         IN  IF wait >= 0
             THEN <<[route |-> arrivals[1][1], bd_time |-> arrivals[1][2],
                     wait |-> wait, viable |-> (wait <= 180)]>> \o rest
             ELSE rest

C9_Listing ==
    (op = "get_station_report" /\ Returned /\ ~ret.lines.f_line.isNone) =>
        LET downstream == parse_arrivals(args.lafayette_data, Only({"B", "D"}), args.t[6]).val
            f_at_lafayette == ret.lines.f_line.v + args.travel_time
            catchable == Catchable(downstream, f_at_lafayette)
        IN  /\ ret.lines.listing = SubSeq(catchable, 1, IF Len(catchable) < 2 THEN Len(catchable) ELSE 2)
            /\ TextTruthy(ret.bd_advice) =>
                  \E i \in 1..Len(ret.lines.listing) :
                      /\ ret.lines.listing[i].route = AdviceRoute(ret.bd_advice.text)
                      /\ ret.lines.listing[i].viable

(***************************************************************************)
(* C4.  When the Hoyt snapshot is unavailable (its fetch fails or its data *)
(* is absent) and the other snapshots are there, the evaluation does not   *)
(* end in an error: Rule A is absent, Rule B gives what it gives on the    *)
(* origin and Lafayette snapshots, and the recommendation names a route.   *)
(***************************************************************************)
Unavailable(fetch) == fetch.exc # "none" \/ fetch.val.isNone
Available(fetch) == ~Unavailable(fetch)

C4_HoytUnavailable ==
    /\ (/\ op = "main" /\ pc = "done"
        /\ Unavailable(args.hoyt_fetch)
        /\ Available(args.lafayette_fetch)
        /\ Available(args.carroll_fetch)
        /\ Available(args.smith_fetch))
       => /\ ret.outcome = "report"
          /\ ret.carroll.g_switch_line = NoText
          /\ ret.carroll.recommended_train =
                Recommend(NoText,
                          check_bd_express(args.carroll_fetch.val, args.lafayette_fetch.val,
                                           CARROLL_TO_LAFAYETTE_TRAVEL_TIME,
                                           args.t[4], args.t[5]).val)
    /\ (/\ op = "get_subway_data" /\ pc = "done"
        /\ Unavailable(args.hoyt_fetch)
        /\ Available(args.lafayette_fetch)
        /\ Available(args.carroll_fetch))
       => /\ ret.error = "none"
          /\ ret.g_switch = NoText
          /\ ret.recommended = "F"

(***************************************************************************)
(* C8.  A zero or negative travel time is rejected with an error before    *)
(* any evaluation: check_bd_express and get_station_report never return    *)
(* normally from a travel_time <= 0.                                       *)
(***************************************************************************)
C8_TravelTimeRejected ==
    (/\ op \in {"check_bd_express", "get_station_report"}
     /\ pc = "done"
     /\ args.travel_time <= 0)
    => ret.exc = "ValueError"

(***************************************************************************)
(* C10.  The dashboard's variant of Rule B decides as check_bd_express     *)
(* does with the Carroll travel time, on the same snapshots read at the    *)
(* same instants: bd_express is set if and only if check_bd_express        *)
(* returns an advisory, and for the same route.                            *)
(***************************************************************************)
C10_SameDecision ==
    (op = "get_subway_data" /\ pc = "done" /\ ret.error = "none") =>
        LET bd == check_bd_express(args.carroll_fetch.val, args.lafayette_fetch.val,
                                   CARROLL_TO_LAFAYETTE_TRAVEL_TIME, args.t[1], args.t[3])
        IN  /\ bd.exc = "none"
            /\ TextTruthy(ret.bd_express) <=> TextTruthy(bd.val)
            /\ TextTruthy(ret.bd_express) =>
                  AdviceRoute(ret.bd_express.text) = AdviceRoute(bd.val.text)

====
